---- MODULE Spec2Model ----
(***************************************************************************)
(* Model of src/train.py (kbot walking task): the recurrent evaluator      *)
(* (sample_action, get_ppo_variables), the phase clock                     *)
(* (TimestepPhaseObservation, FeetPhaseReward.gait_phase) and the spread   *)
(* transform of the mixture head (Actor.forward).                          *)
(*                                                                         *)
(* Numbers are fixed point.  Angles are counted in units of pi/Pi, times   *)
(* in units of 0.01 s, gait frequencies in units of 0.25 Hz, velocities in *)
(* units of 0.01, heights in units of 0.0001 m, spreads in units of 0.001. *)
(* Network weights are fixed, arbitrary integer maps: the claims are about *)
(* how memory and inputs are routed, not about the weights.                *)
(***************************************************************************)
EXTENDS Integers, Sequences, FiniteSets, TLC

VARIABLES
    \* recurrent evaluator
    pc,               \* "rollout" | "scan" | "returned"
    argmax,           \* the argmax flag of the run (True in evaluation runs)
    model_carry,      \* the (actor, critic) carry pair the rollout chunk starts from
    carry,            \* the carry pair returned by the last sample_action
    trajectory,       \* the recorded transitions of the chunk
    sampled,          \* one record per sample_action call: its input carry and its result
    scan_carry,       \* actor_critic_carry of jax.lax.scan
    fed,              \* the carry pair scan_fn received at each step
    computed,         \* (next_actor_carry, next_critic_carry) of each step
    ppo_variables,    \* the stacked PPOVariables
    next_model_carry, \* the carry pair get_ppo_variables returns
    \* phase clock
    timestep,               \* elapsed simulation time
    state_commands,         \* the command mapping of the episode (state.commands)
    stand_still_threshold,  \* the configured stand-still threshold
    last_obs,               \* the last TimestepPhaseObservation and its time
    prev_obs,               \* the one before
    \* desired foot height
    phi,              \* the phase handed to gait_phase
    swing_height,     \* its swing height
    gait,             \* what gait_phase computed
    \* mixture head
    out_n,            \* the output projection of the actor
    dist_n,           \* the distribution Actor.forward built from it
    \* command generators
    cmd_cfg,          \* the zero and switch probabilities of the generators
    cmd_init,         \* the commands initial_command returned at episode start
    cmd_now,          \* the current commands of the episode
    cmd_switch,       \* the switch draws of the last step
    \* reward terms
    reward_cfg,       \* the stand-still threshold the terms are configured with
    reward_traj,      \* the trajectory handed to get_reward
    rewards           \* what each term returned

varsEval == <<pc, argmax, model_carry, carry, trajectory, sampled, scan_carry,
              fed, computed, ppo_variables, next_model_carry>>

varsPhase == <<timestep, state_commands, stand_still_threshold, last_obs, prev_obs>>

varsGait == <<phi, swing_height, gait>>

varsActor == <<out_n, dist_n>>

varsCmd == <<cmd_cfg, cmd_init, cmd_now, cmd_switch>>

varsReward == <<reward_cfg, reward_traj, rewards>>

vars == <<varsEval, varsPhase, varsGait, varsActor, varsCmd, varsReward>>

----------------------------------------------------------------------------
(* Bounds of the model *)

MaxLen == 4         \* longest trajectory chunk
Depth == 2          \* number of stacked recurrent cells
MemMod == 5         \* hidden values are integers modulo MemMod

None == "none"

\* the parts of the state a specification does not use stay as they are here
IdleEval ==
    /\ pc = None /\ argmax = None /\ model_carry = None /\ carry = None
    /\ trajectory = None /\ sampled = None /\ scan_carry = None /\ fed = None
    /\ computed = None /\ ppo_variables = None /\ next_model_carry = None

IdlePhase ==
    /\ timestep = None /\ state_commands = None /\ stand_still_threshold = None
    /\ last_obs = None /\ prev_obs = None

IdleGait == phi = None /\ swing_height = None /\ gait = None

IdleActor == out_n = None /\ dist_n = None

IdleCmd == cmd_cfg = None /\ cmd_init = None /\ cmd_now = None /\ cmd_switch = None

IdleReward == reward_cfg = None /\ reward_traj = None /\ rewards = None

----------------------------------------------------------------------------
(* Fixed-point helpers *)

Min(a, b) == IF a <= b THEN a ELSE b

RECURSIVE SumSeq(_)
SumSeq(s) == IF s = <<>> THEN 0 ELSE Head(s) + SumSeq(Tail(s))

\* sum of position-weighted entries: a linear layer whose weight of input i is i
Linear(x_n) == SumSeq([i \in 1..Len(x_n) |-> i * x_n[i]])

----------------------------------------------------------------------------
(* Mixture head of the actor *)

min_std == 10       \* 0.01
max_std == 1000     \* 1.0
var_scale == 1      \* 1.0

\* softplus(-m) for m = 0, 1, 2, ... in units of 0.001, rounded down
SoftplusTail(m) ==
    IF m >= 7 THEN 0 ELSE <<693, 313, 126, 48, 18, 6, 2>>[m + 1]

\* jax.nn.softplus(x) = log(1 + exp(x)) = max(x, 0) + softplus(-|x|), x in units of 1.0
softplus(x) == IF x >= 0 THEN 1000 * x + SoftplusTail(x) ELSE SoftplusTail(-x)

\* the transform without the floor
SpreadTransform_NoFloor(std_raw) == Min(softplus(std_raw) * var_scale, max_std)

\* jnp.clip((softplus(std) + min_std) * var_scale, max=max_std)
SpreadTransform(std_raw) == Min((softplus(std_raw) + min_std) * var_scale, max_std)

\* bias of the joint (one entry of ZEROS; one joint is modelled)
ZEROS == 1

\* the mixture built from the three slices of the output projection
MixtureHead(mean_raw, std_raw, logit_raw) ==
    [means_nm |-> mean_raw + ZEROS,
     stds_nm |-> SpreadTransform(std_raw),
     logits_nm |-> logit_raw]

----------------------------------------------------------------------------
(* Recurrent networks *)

\* one GRU cell with fixed weights w: the new hidden value depends on the input
\* and on the previous hidden value
GRUCell(w, x, h) == (w.wx * x + w.wh * h + w.b) % MemMod

\* the weights of layer i of the actor's and of the critic's stack
CellWeights(net, i) ==
    IF net = "actor"
      THEN [wx |-> 1, wh |-> (i % (MemMod - 1)) + 1, b |-> 1]
      ELSE [wx |-> 2, wh |-> ((i + 1) % (MemMod - 1)) + 1, b |-> 3]

\* for i, rnn in enumerate(self.rnns): x_n = rnn(x_n, carry[i]); out_carries.append(x_n)
RECURSIVE RunCells(_, _, _, _)
RunCells(net, x, mem, i) ==
    IF i > Depth THEN <<>>
    ELSE LET h == GRUCell(CellWeights(net, i), x, mem[i])
         IN  <<h>> \o RunCells(net, h, mem, i + 1)

\* Actor.forward(obs_n, carry) -> (dist, stacked out_carries)
Actor_forward(obs_n, mem) ==
    LET x_n == Linear(obs_n) % MemMod
        out_carries == RunCells("actor", x_n, mem, 1)
        top == out_carries[Depth]
    IN  [dist |-> MixtureHead(top, 3 * top - 6, top % 2),
         carry |-> out_carries]

\* Critic.forward(obs_n, carry) -> (value, stacked out_carries)
Critic_forward(obs_n, mem) ==
    LET x_n == (Linear(obs_n) + 1) % MemMod
        out_carries == RunCells("critic", x_n, mem, 1)
    IN  [value |-> 2 * out_carries[Depth] + 1,
         carry |-> out_carries]

\* MixtureOfGaussians.log_prob(action), .mode() and .sample(seed=rng) with one
\* component: a density that falls with the distance from the mean
log_prob(dist, action) ==
    -((action - dist.means_nm) * (action - dist.means_nm)) - dist.stds_nm

mode(dist) == dist.means_nm

sample(dist, rng) == dist.means_nm + (2 * rng - 1) * (1 + dist.stds_nm \div max_std)

----------------------------------------------------------------------------
(* Observation and command mappings *)

\* the observation mapping the physics-state provider hands over when the
\* robot is in situation a; every key holds a one-entry vector
Observation(a) ==
    [timestep_phase_observation |-> a,
     joint_position_observation |-> 1,
     joint_velocity_observation |-> 10 * a,
     projected_gravity_observation |-> 1 - a,
     sensor_observation_imu_gyro |-> 2 * a,
     sensor_observation_imu_acc |-> 1,
     feet_contact_observation |-> a,
     feet_position_observation |-> 2,
     base_position_observation |-> 1 + a,
     base_orientation_observation |-> 1,
     base_linear_velocity_observation |-> a,
     base_angular_velocity_observation |-> 0,
     actuator_force_observation |-> 100 * (1 + a)]

Command(a) ==
    [linear_velocity_command |-> 1 + a,
     angular_velocity_command |-> a,
     gait_frequency_command |-> 5]

Situations == 0..1
RngKeys == 0..1

\* run_actor, lines 1016-1039: the vector the actor is given
actor_obs_n(observations, commands) ==
    <<observations.timestep_phase_observation,
      observations.joint_position_observation,
      observations.joint_velocity_observation,
      observations.projected_gravity_observation,
      observations.sensor_observation_imu_acc,
      observations.sensor_observation_imu_gyro,
      commands.linear_velocity_command,
      commands.angular_velocity_command,
      commands.gait_frequency_command>>

\* run_critic, lines 1052-1090: the vector the critic is given
critic_obs_n(observations, commands) ==
    <<observations.timestep_phase_observation,
      observations.joint_position_observation,
      observations.joint_velocity_observation \div 10,
      observations.projected_gravity_observation,
      observations.sensor_observation_imu_acc,
      observations.sensor_observation_imu_gyro,
      commands.linear_velocity_command,
      commands.angular_velocity_command,
      commands.gait_frequency_command,
      observations.feet_contact_observation,
      observations.feet_position_observation,
      observations.base_position_observation,
      observations.base_orientation_observation,
      observations.base_linear_velocity_observation,
      observations.base_angular_velocity_observation,
      observations.actuator_force_observation \div 100>>

\* an actor that is also shown the feet contacts
run_actor_Privileged(observations, commands, mem) ==
    Actor_forward(<<observations.feet_contact_observation>>
                      \o actor_obs_n(observations, commands), mem)

\* KbotWalkingTask.run_actor
run_actor(observations, commands, mem) ==
    Actor_forward(actor_obs_n(observations, commands), mem)

\* KbotWalkingTask.run_critic
run_critic(observations, commands, mem) ==
    Critic_forward(critic_obs_n(observations, commands), mem)

\* KbotWalkingTask.get_initial_model_carry: two all-zero (depth, hidden) arrays
get_initial_model_carry ==
    <<[i \in 1..Depth |-> 0], [i \in 1..Depth |-> 0]>>

\* the carry pairs a chunk can start from: the episode start, and a chunk that
\* continues an episode with memory left by the previous chunk
InitialCarries ==
    {get_initial_model_carry,
     <<[i \in 1..Depth |-> i % MemMod], [i \in 1..Depth |-> (i + 2) % MemMod]>>}

\* sample_action that also resets the critic memory
sample_action_ResetCritic(carry_pair, observations, commands, rng, am) ==
    LET out == run_actor(observations, commands, carry_pair[1])
        action_j == IF am THEN mode(out.dist) ELSE sample(out.dist, rng)
    IN  [action |-> action_j,
         carry |-> <<out.carry, get_initial_model_carry[2]>>]

\* sample_action that runs the actor on the critic memory
sample_action_ActorFromCritic(carry_pair, observations, commands, rng, am) ==
    LET out == run_actor(observations, commands, carry_pair[2])
        action_j == IF am THEN mode(out.dist) ELSE sample(out.dist, rng)
    IN  [action |-> action_j,
         carry |-> <<out.carry, carry_pair[2]>>]

\* KbotWalkingTask.sample_action -> ksim.Action(action, carry, aux_outputs)
sample_action(carry_pair, observations, commands, rng, am) ==
    LET actor_carry_in == carry_pair[1]
        critic_carry_in == carry_pair[2]
        out == run_actor(observations, commands, actor_carry_in)
        action_j == IF am THEN mode(out.dist) ELSE sample(out.dist, rng)
    IN  [action |-> action_j,
         carry |-> <<out.carry, critic_carry_in>>]

\* a select that never resets
SelectCarry_NeverReset(done, initial, next) == next

\* a select that crosses the actor and the critic memory
SelectCarry_Crossed(done, initial, next) ==
    <<IF done THEN initial[1] ELSE next[2],
      IF done THEN initial[2] ELSE next[1]>>

\* a select that resets the actor memory only
SelectCarry_ActorOnly(done, initial, next) ==
    <<IF done THEN initial[1] ELSE next[1], next[2]>>

\* jax.tree.map(lambda x, y: jnp.where(done, x, y), initial, next)
SelectCarry(done, initial, next) ==
    <<IF done THEN initial[1] ELSE next[1],
      IF done THEN initial[2] ELSE next[2]>>

\* scan_fn that scores the mode of the distribution instead of the recorded action
scan_fn_ScoresMode(actor_critic_carry, transition) ==
    LET a == run_actor(transition.obs, transition.command, actor_critic_carry[1])
        c == run_critic(transition.obs, transition.command, actor_critic_carry[2])
    IN  [next_carry |-> <<IF transition.done THEN get_initial_model_carry[1] ELSE a.carry,
                          IF transition.done THEN get_initial_model_carry[2] ELSE c.carry>>,
         transition_ppo_variables |->
             [log_probs |-> log_prob(a.dist, mode(a.dist)), values |-> c.value],
         computed |-> <<a.carry, c.carry>>]

\* get_ppo_variables.scan_fn(actor_critic_carry, transition)
scan_fn(actor_critic_carry, transition) ==
    LET actor_carry == actor_critic_carry[1]
        critic_carry == actor_critic_carry[2]
        a == run_actor(transition.obs, transition.command, actor_carry)
        log_probs == log_prob(a.dist, transition.action)
        c == run_critic(transition.obs, transition.command, critic_carry)
        next_carry == SelectCarry(transition.done, get_initial_model_carry,
                                  <<a.carry, c.carry>>)
    IN  [next_carry |-> next_carry,
         transition_ppo_variables |-> [log_probs |-> log_probs, values |-> c.value],
         computed |-> <<a.carry, c.carry>>]

----------------------------------------------------------------------------
(* Recurrent evaluator: a rollout chunk followed by its re-evaluation *)

InitEval ==
    /\ pc = "rollout"
    /\ argmax \in BOOLEAN
    /\ model_carry \in InitialCarries
    /\ carry = model_carry
    /\ trajectory = <<>>
    /\ sampled = <<>>
    /\ scan_carry = model_carry
    /\ fed = <<>>
    /\ computed = <<>>
    /\ ppo_variables = <<>>
    /\ next_model_carry = None
    /\ IdlePhase /\ IdleGait /\ IdleActor /\ IdleCmd /\ IdleReward

\* one online step: sample_action on the carry the previous call returned; the
\* engine records the transition with the termination flag of the step
SampleAction ==
    /\ pc = "rollout"
    /\ Len(trajectory) < MaxLen
    /\ \E a \in Situations, rng \in RngKeys, done \in BOOLEAN :
         LET act == sample_action(carry, Observation(a), Command(a), rng, argmax)
         IN  /\ carry' = act.carry
             /\ sampled' = Append(sampled, [carry_in |-> carry, action |-> act.action,
                                            carry |-> act.carry])
             /\ trajectory' = Append(trajectory,
                                     [obs |-> Observation(a), command |-> Command(a),
                                      action |-> act.action, done |-> done])
    /\ UNCHANGED <<pc, argmax, model_carry, scan_carry, fed, computed,
                   ppo_variables, next_model_carry>>
    /\ UNCHANGED <<varsPhase, varsGait, varsActor, varsCmd, varsReward>>

\* one iteration of jax.lax.scan(scan_fn, model_carry, trajectory); the last
\* iteration returns (ppo_variables, next_model_carry)
ScanStep ==
    /\ pc \in {"rollout", "scan"}
    /\ Len(trajectory) >= 1
    /\ Len(fed) < Len(trajectory)
    /\ LET t == Len(fed) + 1
           out == scan_fn(scan_carry, trajectory[t])
       IN  /\ fed' = Append(fed, scan_carry)
           /\ computed' = Append(computed, out.computed)
           /\ ppo_variables' = Append(ppo_variables, out.transition_ppo_variables)
           /\ scan_carry' = out.next_carry
           /\ IF t = Len(trajectory)
                THEN pc' = "returned" /\ next_model_carry' = out.next_carry
                ELSE pc' = "scan" /\ UNCHANGED next_model_carry
    /\ UNCHANGED <<argmax, model_carry, carry, trajectory, sampled>>
    /\ UNCHANGED <<varsPhase, varsGait, varsActor, varsCmd, varsReward>>

NextEval == SampleAction \/ ScanStep

SpecEval == InitEval /\ [][NextEval]_vars

----------------------------------------------------------------------------
(* Claims about the recurrent evaluator, checked under SpecEval *)

ZeroCarry == [i \in 1..Depth |-> 0]

NoDoneUpTo(k) == \A j \in 1..k : ~trajectory[j].done

\* C1: in get_ppo_variables, whenever done[t] holds, the actor memory and the
\* critic memory fed into step t+1 are both the all-zero initial memory,
\* whatever memory the networks computed at step t.
Thm_C1_ResetAfterDone ==
    \A t \in 1..Len(fed) :
        (t > 1 /\ trajectory[t - 1].done) =>
            (fed[t][1] = ZeroCarry /\ fed[t][2] = ZeroCarry)

\* the scenario done = [False, False, True, False]: step index 3 has been fed
\* the zero carry although step index 2 computed non-zero memory
Wit_C1_ResetAfterDone ==
    /\ Len(fed) = 4
    /\ [t \in 1..4 |-> trajectory[t].done] = <<FALSE, FALSE, TRUE, FALSE>>
    /\ computed[3][1] # ZeroCarry
    /\ computed[3][2] # ZeroCarry
    /\ fed[4] = <<ZeroCarry, ZeroCarry>>

\* C2: whenever done[t] does not hold, the actor memory fed into step t+1 is
\* the memory the actor computed at step t and the critic memory fed into step
\* t+1 is the memory the critic computed at step t; step 0 is fed the caller's
\* initial carry pair.
Thm_C2_CarryForward ==
    \A t \in 1..Len(fed) :
        /\ t = 1 => fed[t] = model_carry
        /\ (t > 1 /\ ~trajectory[t - 1].done) =>
              (fed[t][1] = computed[t - 1][1] /\ fed[t][2] = computed[t - 1][2])

\* a step without done was followed by a step, the two computed memories differ
\* from each other and from zero, and the chunk started from non-zero memory
Wit_C2_CarryForward ==
    /\ Len(fed) >= 3
    /\ model_carry # <<ZeroCarry, ZeroCarry>>
    /\ ~trajectory[2].done
    /\ computed[2][1] # computed[2][2]
    /\ computed[2][1] # ZeroCarry
    /\ computed[2][2] # ZeroCarry
    /\ fed[3] = computed[2]

\* C3: sample_action returns a carry pair whose critic component is the critic
\* memory it was given, for both values of the argmax flag; the actor
\* component is the memory the actor produced in this step.
Thm_C3_CriticPassThrough ==
    \A k \in 1..Len(sampled) :
        /\ sampled[k].carry[2] = sampled[k].carry_in[2]
        /\ sampled[k].carry[1] =
              run_actor(trajectory[k].obs, trajectory[k].command,
                        sampled[k].carry_in[1]).carry

\* a call that was given non-zero critic memory and changed the actor memory
Wit_C3_CriticPassThrough ==
    /\ Len(sampled) >= 2
    /\ sampled[2].carry_in[2] # ZeroCarry
    /\ sampled[2].carry[1] # sampled[2].carry_in[1]
    /\ sampled[2].carry[1] # sampled[2].carry[2]

\* C4: get_ppo_variables returns one (log_prob, value) pair per timestep, in
\* trajectory order; pair t is computed from transition t (its recorded
\* action) and the memory fed into step t; the returned memory pair is the
\* zero memory when the last step is done and the memory computed at the last
\* step otherwise.
Thm_C4_AlignedOutputs ==
    /\ Len(ppo_variables) = Len(fed)
    /\ \A t \in 1..Len(ppo_variables) :
          /\ ppo_variables[t].log_probs =
                log_prob(run_actor(trajectory[t].obs, trajectory[t].command,
                                   fed[t][1]).dist, trajectory[t].action)
          /\ ppo_variables[t].values =
                run_critic(trajectory[t].obs, trajectory[t].command, fed[t][2]).value
    /\ pc = "returned" =>
          /\ Len(ppo_variables) = Len(trajectory)
          /\ next_model_carry =
                IF trajectory[Len(trajectory)].done
                  THEN <<ZeroCarry, ZeroCarry>>
                  ELSE computed[Len(trajectory)]

\* a returned scan of a full chunk whose outputs differ between steps and whose
\* last step is not done
Wit_C4_AlignedOutputs ==
    /\ pc = "returned"
    /\ Len(trajectory) = MaxLen
    /\ ~trajectory[MaxLen].done
    /\ next_model_carry # <<ZeroCarry, ZeroCarry>>
    /\ ppo_variables[1] # ppo_variables[2]
    /\ trajectory[1].action # trajectory[2].action

\* C5: with no done flag set, the actor memory after k successive
\* sample_action calls equals the actor memory get_ppo_variables feeds into
\* step k when it scans the same sequence from the same starting memory (and
\* the actor memory it returns, when k is the whole chunk).
Thm_C5_OnlineOfflineAgree ==
    /\ \A k \in 1..Len(sampled) :
          (k + 1 <= Len(fed) /\ NoDoneUpTo(k)) => sampled[k].carry[1] = fed[k + 1][1]
    /\ (pc = "returned" /\ NoDoneUpTo(Len(trajectory))) =>
          sampled[Len(sampled)].carry[1] = next_model_carry[1]

\* a returned scan of a full chunk without done flags, started from non-zero
\* memory, whose actor memory changed along the way
Wit_C5_OnlineOfflineAgree ==
    /\ pc = "returned"
    /\ Len(trajectory) = MaxLen
    /\ NoDoneUpTo(MaxLen)
    /\ model_carry # <<ZeroCarry, ZeroCarry>>
    /\ sampled[1].carry[1] # sampled[2].carry[1]
    /\ sampled[MaxLen].carry[1] # sampled[MaxLen].carry[2]

----------------------------------------------------------------------------
(* Phase clock: TimestepPhaseObservation *)

\* jnp.pi as an angle: half a turn is Pi angle units
Pi == 200
TwoPi == 2 * Pi

\* jnp.pi as a number, where a duration is computed from it (2*pi/f): the
\* rational PiNum / PiDen; any value strictly between 3 and 3.5 gives the
\* same verdicts, because 2*pi is then not a whole number of cycles
PiNum == 25
PiDen == 8

\* one cycle is this many (0.01 s) * (0.25 Hz)
UnitsPerCycle == 100 * 4

ctrl_dt == 2        \* 0.02 s

MaxStartTime == 50  \* times the clock is first read at: 0 .. MaxStartTime
MaxTime == 640      \* the clock is not advanced past MaxTime

GaitFrequencies == {4, 5}      \* 1.0 Hz, 1.25 Hz

LinearVelocityCommands == {<<0, 0>>, <<1, 0>>, <<30, -20>>}
AngularVelocityCommands == {<<0>>, <<1>>}
StandStillThresholds == {0, 1, 2}

\* jnp.fmod: the remainder has the sign of the dividend
fmod(a, b) == IF a >= 0 THEN a % b ELSE -((-a) % b)

SumSq(v) == SumSeq([i \in 1..Len(v) |-> v[i] * v[i]])

\* jnp.linalg.norm(v) < c and jnp.linalg.norm(v) > c, decided on the squares
NormLess(v, c) == c > 0 /\ SumSq(v) < c * c
NormGreater(v, c) == c < 0 \/ SumSq(v) > c * c

\* jnp.cos and jnp.sin, each named by the arc it determines: cos(p) by the
\* distance of p from 0 on the circle, sin(p) by the distance of p from pi/2
ArcDist(p, q) == Min((p - q) % TwoPi, (q - p) % TwoPi)
cos(p) == ArcDist(p, 0)
sin(p) == ArcDist(p, Pi \div 2)

\* the wrap that forgets to shift back by pi
WrappedPhase_NoShiftBack(time, gait_freq) ==
    LET phase_dt == (TwoPi * gait_freq * ctrl_dt) \div UnitsPerCycle
        start_phase == <<0, Pi>>
    IN  [i \in 1..2 |-> fmod(start_phase[i] + (time * phase_dt) \div ctrl_dt + Pi, TwoPi)]

\* the phase that is never wrapped
WrappedPhase_NoWrap(time, gait_freq) ==
    LET phase_dt == (TwoPi * gait_freq * ctrl_dt) \div UnitsPerCycle
        start_phase == <<0, Pi>>
    IN  [i \in 1..2 |-> start_phase[i] + (time * phase_dt) \div ctrl_dt]

\* observe, lines 229-233: the time-driven phase of the two feet, wrapped
\*   steps = timestep / ctrl_dt;  phase_dt = 2 * pi * gait_freq * ctrl_dt
\*   phase = fmod(start_phase + steps * phase_dt + pi, 2 * pi) - pi
WrappedPhase(time, gait_freq) ==
    LET phase_dt == (TwoPi * gait_freq * ctrl_dt) \div UnitsPerCycle
        start_phase == <<0, Pi>>
    IN  [i \in 1..2 |->
            fmod(start_phase[i] + (time * phase_dt) \div ctrl_dt + Pi, TwoPi) - Pi]

\* observe that freezes the phase at the threshold too
observe_AtThreshold(time, cmds, threshold) ==
    LET cmd == cmds.linear_velocity_command \o cmds.angular_velocity_command
        phase == IF ~NormGreater(cmd, threshold)
                   THEN <<Pi \div 2, Pi>>
                   ELSE WrappedPhase(time, cmds.gait_frequency_command[1])
    IN  [phase |-> phase,
         observation |-> <<cos(phase[1]), cos(phase[2]), sin(phase[1]), sin(phase[2])>>]

\* TimestepPhaseObservation.observe: the phase it settles on and the
\* observation [cos(phase), sin(phase)].flatten() it returns
observe(time, cmds, threshold) ==
    LET gait_freq == cmds.gait_frequency_command[1]
        wrapped == WrappedPhase(time, gait_freq)
        vel_cmd == cmds.linear_velocity_command
        ang_vel_cmd == cmds.angular_velocity_command
        phase == IF NormLess(vel_cmd \o ang_vel_cmd, threshold)
                   THEN <<Pi \div 2, Pi>>
                   ELSE wrapped
    IN  [phase |-> phase,
         observation |-> <<cos(phase[1]), cos(phase[2]), sin(phase[1]), sin(phase[2])>>]

\* the durations 1/f and 2*pi/f, in time units, where they are whole
Period(gait_freq) == UnitsPerCycle \div gait_freq
TwoPiOverF(gait_freq) == (2 * PiNum * UnitsPerCycle) \div (PiDen * gait_freq)

Durations(gait_freq) ==
    {d \in {Period(gait_freq)} : d * gait_freq = UnitsPerCycle}
    \cup {d \in {TwoPiOverF(gait_freq)} : d * PiDen * gait_freq = 2 * PiNum * UnitsPerCycle}

\* no observation taken yet
NoObs == [timestep |-> -1, phase |-> <<0, 0>>, observation |-> <<0, 0, 0, 0>>]

InitPhase ==
    /\ timestep \in 0..MaxStartTime
    /\ state_commands \in [linear_velocity_command : LinearVelocityCommands,
                           angular_velocity_command : AngularVelocityCommands,
                           gait_frequency_command : {<<f>> : f \in GaitFrequencies}]
    /\ stand_still_threshold \in StandStillThresholds
    /\ last_obs = NoObs
    /\ prev_obs = NoObs
    /\ IdleEval /\ IdleGait /\ IdleActor /\ IdleCmd /\ IdleReward

\* the observation of the current time is taken
Observe ==
    /\ last_obs.timestep # timestep
    /\ LET o == observe(timestep, state_commands, stand_still_threshold)
       IN  last_obs' = [timestep |-> timestep, phase |-> o.phase,
                        observation |-> o.observation]
    /\ prev_obs' = last_obs
    /\ UNCHANGED <<timestep, state_commands, stand_still_threshold>>
    /\ UNCHANGED <<varsEval, varsGait, varsActor, varsCmd, varsReward>>

\* simulation time passes: one gait period, or 2*pi/f
Elapse ==
    /\ \E d \in Durations(state_commands.gait_frequency_command[1]) :
         /\ timestep + d <= MaxTime
         /\ timestep' = timestep + d
    /\ UNCHANGED <<state_commands, stand_still_threshold, last_obs, prev_obs>>
    /\ UNCHANGED <<varsEval, varsGait, varsActor, varsCmd, varsReward>>

NextPhase == Observe \/ Elapse

SpecPhase == InitPhase /\ [][NextPhase]_vars

----------------------------------------------------------------------------
(* Claims about the phase clock, checked under SpecPhase *)

Taken(o) == o.timestep >= 0

\* the command norm of the state is below the stand-still threshold
BelowThreshold ==
    LET v == state_commands.linear_velocity_command
        w == state_commands.angular_velocity_command
    IN  v[1] * v[1] + v[2] * v[2] + w[1] * w[1]
            < stand_still_threshold * stand_still_threshold

GaitFreq == state_commands.gait_frequency_command[1]

Orig_C7_Periodicity ==
    (/\ Taken(prev_obs) /\ Taken(last_obs) /\ ~BelowThreshold
     /\ (last_obs.timestep - prev_obs.timestep) * PiDen * GaitFreq
            = 2 * PiNum * UnitsPerCycle)
        => last_obs.phase = prev_obs.phase

\* C7, amended: the period is 1/f, not 2*pi/f: for every elapsed time t and
\* gait frequency f > 0, phase(t + 1/f, f, False) = phase(t, f, False) for
\* both feet.
Thm_C7_Periodicity ==
    (/\ Taken(prev_obs) /\ Taken(last_obs) /\ ~BelowThreshold
     /\ (last_obs.timestep - prev_obs.timestep) * GaitFreq = UnitsPerCycle)
        => last_obs.phase = prev_obs.phase

\* two readings one period apart, away from the start of the cycle
Wit_C7_Periodicity ==
    /\ Taken(prev_obs) /\ Taken(last_obs) /\ ~BelowThreshold
    /\ (last_obs.timestep - prev_obs.timestep) * GaitFreq = UnitsPerCycle
    /\ prev_obs.timestep > 0
    /\ last_obs.phase = prev_obs.phase
    /\ last_obs.phase # <<0, -Pi>>

\* C8: whenever the norm of the concatenated linear + angular velocity command
\* is below the stand-still threshold the phase is the frozen pair (pi/2, pi),
\* for any elapsed time and gait frequency; whenever it is not below, the
\* phase is the time-driven wrapped value (start offset plus 2*pi*f*t, up to
\* whole turns).
Thm_C8_StandStillOverride ==
    Taken(last_obs) =>
        IF BelowThreshold
          THEN last_obs.phase = <<Pi \div 2, Pi>>
          ELSE \A i \in 1..2 :
                 /\ -Pi <= last_obs.phase[i] /\ last_obs.phase[i] < Pi
                 /\ (UnitsPerCycle * (last_obs.phase[i] - <<0, Pi>>[i])
                       - TwoPi * GaitFreq * last_obs.timestep)
                          % (UnitsPerCycle * TwoPi) = 0

\* two readings at different times, both frozen, where the time-driven value
\* would have been something else
Wit_C8_StandStillOverride ==
    /\ Taken(prev_obs) /\ Taken(last_obs) /\ BelowThreshold
    /\ last_obs.timestep > prev_obs.timestep
    /\ last_obs.phase = <<Pi \div 2, Pi>>
    /\ prev_obs.phase = <<Pi \div 2, Pi>>
    /\ WrappedPhase(last_obs.timestep, GaitFreq) # <<Pi \div 2, Pi>>
    /\ state_commands.linear_velocity_command # <<0, 0>>

----------------------------------------------------------------------------
(* Desired foot height: FeetPhaseReward.gait_phase *)

PhiMargin == 20     \* phases from -Pi - PhiMargin to Pi + PhiMargin are tried

SwingHeights == {800, 1200}    \* 0.08 m (the default argument), 0.12 m (max_foot_height)

\* jnp.clip(x, lo, hi)
clip(x, lo, hi) == IF x < lo THEN lo ELSE IF x > hi THEN hi ELSE x

\* xax.cubic_bezier_interpolation(y_start, y_end, x) at x = num / Pi:
\*   y_diff = y_end - y_start;  bezier = x**3 + 3 * (x**2 * (1 - x))
\*   return y_start + y_diff * bezier
\* bezier is kept in thousandths, rounded down
cubic_bezier_interpolation(y_start, y_end, num) ==
    LET y_diff == y_end - y_start
        bezier == (num * num * num + 3 * (num * num * (Pi - num)))
                      \div ((Pi * Pi * Pi) \div 1000)
    IN  y_start + (y_diff * bezier) \div 1000

\* gait_phase without the clip of x
gait_phase_NoClip(phase, height) ==
    LET xn == phase + Pi
        stance == cubic_bezier_interpolation(0, height, xn)
        swing == cubic_bezier_interpolation(height, 0, xn - Pi)
    IN  [x |-> xn, stance |-> stance, swing |-> swing,
         height |-> IF xn <= Pi THEN stance ELSE swing]

\* FeetPhaseReward.gait_phase(phi, swing_height): x = xn / TwoPi, so 2x = xn / Pi
\* and 2x - 1 = (xn - Pi) / Pi; the result is the field height, the other
\* fields are the intermediate values of the function
gait_phase(phase, height) ==
    LET xn == clip(phase + Pi, 0, TwoPi)
        stance == cubic_bezier_interpolation(0, height, xn)
        swing == cubic_bezier_interpolation(height, 0, xn - Pi)
    IN  [x |-> xn, stance |-> stance, swing |-> swing,
         height |-> IF xn <= Pi THEN stance ELSE swing]

\* gait_phase not called yet
NoGait == [x |-> -1, stance |-> 0, swing |-> 0, height |-> 0]

InitGait ==
    /\ phi \in (-Pi - PhiMargin)..(Pi + PhiMargin)
    /\ swing_height \in SwingHeights
    /\ gait = NoGait
    /\ IdleEval /\ IdlePhase /\ IdleActor /\ IdleCmd /\ IdleReward

GaitPhase ==
    /\ gait = NoGait
    /\ gait' = gait_phase(phi, swing_height)
    /\ UNCHANGED <<phi, swing_height>>
    /\ UNCHANGED <<varsEval, varsPhase, varsActor, varsCmd, varsReward>>

NextGait == GaitPhase

SpecGait == InitGait /\ [][NextGait]_vars

\* C9: the desired foot height is exactly 0 at x = 0 (phase -pi) and at x = 1
\* (phase pi); at x = 0.5 the rising branch (parameter 2x) and the falling
\* branch (parameter 2x - 1) both give swing_height, so the curve has no jump
\* there; phases outside [-pi, pi] are clipped to x in [0, 1].
Thm_C9_FootHeight ==
    gait # NoGait =>
        /\ 0 <= gait.x /\ gait.x <= TwoPi
        /\ phi <= -Pi => (gait.x = 0 /\ gait.height = 0)
        /\ phi >= Pi => (gait.x = TwoPi /\ gait.height = 0)
        /\ phi = 0 => (/\ gait.x = Pi
                       /\ gait.stance = swing_height
                       /\ gait.swing = swing_height
                       /\ gait.height = swing_height)
        /\ (-1 <= phi /\ phi <= 1) =>
              (swing_height - gait.height <= 2 /\ gait.height <= swing_height)

\* gait_phase was called at x = 0.5 and both branches gave swing_height
Wit_C9_FootHeight ==
    /\ gait # NoGait
    /\ phi = 0
    /\ gait.stance = swing_height
    /\ gait.swing = swing_height
    /\ gait.height = swing_height

----------------------------------------------------------------------------
(* Mixture head: the spread transform of Actor.forward *)

RawMax == 30        \* raw spreads from -RawMax to RawMax are tried

NoDist == [means_nm |-> 0, stds_nm |-> -1, logits_nm |-> 0]

InitActor ==
    /\ out_n \in [mean : {-1, 1}, std : (-RawMax)..RawMax, logits : {0, 1}]
    /\ dist_n = NoDist
    /\ IdleEval /\ IdlePhase /\ IdleGait /\ IdleCmd /\ IdleReward

\* Actor.forward from the output projection on: the mixture is built
Forward ==
    /\ dist_n = NoDist
    /\ dist_n' = MixtureHead(out_n.mean, out_n.std, out_n.logits)
    /\ UNCHANGED out_n
    /\ UNCHANGED <<varsEval, varsPhase, varsGait, varsCmd, varsReward>>

NextActor == Forward

SpecActor == InitActor /\ [][NextActor]_vars

\* C10: for every raw network output, however large, the spread of the mixture
\* lies in [min_std * var_scale, max_std]; the floor is reached when the
\* softplus underflows and the ceiling when the scaled value exceeds it.
Thm_C10_SpreadBounds ==
    dist_n # NoDist =>
        /\ min_std * var_scale <= dist_n.stds_nm
        /\ dist_n.stds_nm <= max_std
        /\ out_n.std <= -7 => dist_n.stds_nm = min_std * var_scale
        /\ out_n.std >= 1 => dist_n.stds_nm = max_std

\* the largest negative raw output gave exactly the floor
Wit_C10_SpreadBounds ==
    /\ dist_n # NoDist
    /\ out_n.std = -RawMax
    /\ dist_n.stds_nm = min_std * var_scale
    /\ dist_n.stds_nm < max_std

----------------------------------------------------------------------------
(* Command generators *)

\* probabilities, in percent
Probabilities == {0, 50, 100}
SwitchProbabilities == {0, 50}

gait_freq_lower == 4            \* 1.0 Hz
gait_freq_upper == 6            \* 1.5 Hz
scale == 1                      \* AngularVelocityCommand.scale
x_range == <<-1, 2>>            \* LinearVelocityCommand.x_range
y_range == <<-1, 1>>            \* LinearVelocityCommand.y_range

CurriculumLevels == 0..1

\* jax.random.bernoulli(rng, p): the draws the random source can give; a
\* uniform number of [0, 1) is below p always when p = 1 and never when p = 0
bernoulli(p) == IF p >= 100 THEN {TRUE} ELSE IF p <= 0 THEN {FALSE} ELSE BOOLEAN

\* jax.random.uniform(rng, (1,), minval, maxval): a one-entry vector of [minval, maxval)
uniform(minval, maxval) ==
    IF minval < maxval THEN {<<u>> : u \in minval..(maxval - 1)} ELSE {<<minval>>}

\* jnp.zeros_like(cmd)
zeros_like(cmd) == [i \in 1..Len(cmd) |-> 0]

\* GaitFrequencyCommand.initial_command, given the uniform draw
GaitFrequencyCommand_initial_command(draw) == draw

\* a step that draws the frequency again
GaitFrequencyCommand_call_Resampled(prev_command, curriculum_level, draw) == draw

\* GaitFrequencyCommand.__call__(prev_command, physics_data, curriculum_level, rng)
GaitFrequencyCommand_call(prev_command, curriculum_level, draw) == prev_command

\* initial_command that forgets the zero mask
AngularVelocityCommand_initial_command_NoMask(zero_mask, cmd) == cmd

\* AngularVelocityCommand.initial_command, given the bernoulli and the uniform draw
AngularVelocityCommand_initial_command(zero_mask, cmd) ==
    IF zero_mask THEN zeros_like(cmd) ELSE cmd

\* a step that takes the new command whatever the switch draw
AngularVelocityCommand_call_AlwaysNew(prev_command, switch_mask, zero_mask, cmd) ==
    AngularVelocityCommand_initial_command(zero_mask, cmd)

\* AngularVelocityCommand.__call__, given the switch draw and the draws of
\* the initial_command it calls
AngularVelocityCommand_call(prev_command, switch_mask, zero_mask, cmd) ==
    LET new_commands == AngularVelocityCommand_initial_command(zero_mask, cmd)
    IN  IF switch_mask THEN new_commands ELSE prev_command

\* LinearVelocityCommand.initial_command, given its four draws
LinearVelocityCommand_initial_command(x_zero_mask, y_zero_mask, x, y) ==
    (IF x_zero_mask THEN <<0>> ELSE x) \o (IF y_zero_mask THEN <<0>> ELSE y)

\* LinearVelocityCommand.__call__
LinearVelocityCommand_call(prev_command, switch_mask, x_zero_mask, y_zero_mask, x, y) ==
    LET new_commands == LinearVelocityCommand_initial_command(x_zero_mask, y_zero_mask, x, y)
    IN  IF switch_mask THEN new_commands ELSE prev_command

\* no episode started yet
NoCommands ==
    [linear_velocity_command |-> <<>>, angular_velocity_command |-> <<>>,
     gait_frequency_command |-> <<>>]

NoSwitch == [linear |-> FALSE, angular |-> FALSE, stepped |-> FALSE]

InitCmd ==
    /\ cmd_cfg \in [zero_prob : Probabilities, x_zero_prob : Probabilities,
                    y_zero_prob : Probabilities,
                    angular_switch_prob : SwitchProbabilities,
                    linear_switch_prob : SwitchProbabilities]
    /\ cmd_init = NoCommands
    /\ cmd_now = NoCommands
    /\ cmd_switch = NoSwitch
    /\ IdleEval /\ IdlePhase /\ IdleGait /\ IdleActor /\ IdleReward

\* episode start: every generator's initial_command
InitialCommand ==
    /\ cmd_now = NoCommands
    /\ \E zero_mask \in bernoulli(cmd_cfg.zero_prob),
          cmd \in uniform(-scale, scale),
          x_zero_mask \in bernoulli(cmd_cfg.x_zero_prob),
          y_zero_mask \in bernoulli(cmd_cfg.y_zero_prob),
          x \in uniform(x_range[1], x_range[2]),
          y \in uniform(y_range[1], y_range[2]),
          f \in uniform(gait_freq_lower, gait_freq_upper) :
         cmd_now' =
            [linear_velocity_command |->
                 LinearVelocityCommand_initial_command(x_zero_mask, y_zero_mask, x, y),
             angular_velocity_command |->
                 AngularVelocityCommand_initial_command(zero_mask, cmd),
             gait_frequency_command |-> GaitFrequencyCommand_initial_command(f)]
    /\ cmd_init' = cmd_now'
    /\ UNCHANGED <<cmd_cfg, cmd_switch>>
    /\ UNCHANGED <<varsEval, varsPhase, varsGait, varsActor, varsReward>>

\* one step of the episode: every generator is called on its previous command
StepCommand ==
    /\ cmd_now # NoCommands
    /\ \E lin_switch \in bernoulli(cmd_cfg.linear_switch_prob),
          ang_switch \in bernoulli(cmd_cfg.angular_switch_prob),
          zero_mask \in bernoulli(cmd_cfg.zero_prob),
          cmd \in uniform(-scale, scale),
          x_zero_mask \in bernoulli(cmd_cfg.x_zero_prob),
          y_zero_mask \in bernoulli(cmd_cfg.y_zero_prob),
          x \in uniform(x_range[1], x_range[2]),
          y \in uniform(y_range[1], y_range[2]),
          f \in uniform(gait_freq_lower, gait_freq_upper),
          curriculum_level \in CurriculumLevels :
         /\ cmd_now' =
               [linear_velocity_command |->
                    LinearVelocityCommand_call(cmd_now.linear_velocity_command,
                                               lin_switch, x_zero_mask, y_zero_mask, x, y),
                angular_velocity_command |->
                    AngularVelocityCommand_call(cmd_now.angular_velocity_command,
                                                ang_switch, zero_mask, cmd),
                gait_frequency_command |->
                    GaitFrequencyCommand_call(cmd_now.gait_frequency_command,
                                              curriculum_level, f)]
         /\ cmd_switch' = [linear |-> lin_switch, angular |-> ang_switch, stepped |-> TRUE]
    /\ UNCHANGED <<cmd_cfg, cmd_init>>
    /\ UNCHANGED <<varsEval, varsPhase, varsGait, varsActor, varsReward>>

NextCmd == InitialCommand \/ StepCommand

SpecCmd == InitCmd /\ [][NextCmd]_vars

\* C11: every generator's output width is fixed (linear velocity 2, angular
\* velocity 1, gait frequency 1) after initial_command and after any number
\* of steps; with zero probability 1.0 every command of the episode is the
\* zero vector, whatever the switch draws.
Thm_C11_WidthAndZero ==
    cmd_now # NoCommands =>
        /\ Len(cmd_now.linear_velocity_command) = 2
        /\ Len(cmd_now.angular_velocity_command) = 1
        /\ Len(cmd_now.gait_frequency_command) = 1
        /\ cmd_cfg.zero_prob = 100 => cmd_now.angular_velocity_command = <<0>>
        /\ (cmd_cfg.x_zero_prob = 100 /\ cmd_cfg.y_zero_prob = 100) =>
              cmd_now.linear_velocity_command = <<0, 0>>

\* a step whose two switch draws were true, with all zero probabilities 1.0,
\* left the zero commands
Wit_C11_WidthAndZero ==
    /\ cmd_switch.stepped /\ cmd_switch.linear /\ cmd_switch.angular
    /\ cmd_cfg.zero_prob = 100
    /\ cmd_cfg.x_zero_prob = 100 /\ cmd_cfg.y_zero_prob = 100
    /\ cmd_now.angular_velocity_command = <<0>>
    /\ cmd_now.linear_velocity_command = <<0, 0>>

\* C12: the gait frequency is chosen at episode start within
\* [gait_freq_lower, gait_freq_upper] and every step returns it unchanged,
\* whatever the curriculum level and the random draws of the step.
Thm_C12_GaitFrequencyHeld ==
    cmd_now # NoCommands =>
        /\ cmd_now.gait_frequency_command = cmd_init.gait_frequency_command
        /\ gait_freq_lower <= cmd_now.gait_frequency_command[1]
        /\ cmd_now.gait_frequency_command[1] <= gait_freq_upper

\* after a step in which the other commands changed, the gait frequency is
\* still the initial one, and it is not the lower bound
Wit_C12_GaitFrequencyHeld ==
    /\ cmd_switch.stepped
    /\ cmd_now.linear_velocity_command # cmd_init.linear_velocity_command
    /\ cmd_now.gait_frequency_command = cmd_init.gait_frequency_command
    /\ cmd_now.gait_frequency_command[1] > gait_freq_lower

----------------------------------------------------------------------------
(* Reward terms.  Velocities and thresholds are in 0.01 m/s (rad/s), foot
   heights in 0.0001 m, joint positions in 0.01 rad, forces in N, rewards in
   1e-4 (One is 1.0).  A traj holds, per key, one vector per timestep. *)

One == 10000

\* exp(-1/4), in 1e-4
ExpQuarterStep == 7788

\* exp(-k/4), rounded down at every quarter step
RECURSIVE ExpQuarter(_)
ExpQuarter(k) == IF k <= 0 THEN One ELSE (ExpQuarter(k - 1) * ExpQuarterStep) \div One

\* an exponential that has saturated at 1 everywhere
exp_neg_Saturated(num, den) == One

\* jnp.exp(-num / den), read at the quarter step below num / den
exp_neg(num, den) == ExpQuarter((4 * num) \div den)

\* floor of the square root
Sqrt(n) == CHOOSE r \in 0..n : r * r <= n /\ (r + 1) * (r + 1) > n

feet_pos_obs_name == "feet_position_observation"
linvel_obs_name == "sensor_observation_base_site_linvel"
angvel_obs_name == "sensor_observation_base_site_angvel"
com_vel_obs_name == "center_of_mass_velocity_observation"
feet_contact_obs_name == "feet_contact_observation"
sensor_names == <<"sensor_observation_left_foot_force", "sensor_observation_right_foot_force">>
linear_velocity_cmd_name == "linear_velocity_command"
angular_velocity_cmd_name == "angular_velocity_command"
gait_freq_cmd_name == "gait_frequency_command"

error_scale == 2500             \* 0.25, in (0.01)^2
foot_sensitivity == 1000000     \* FeetPhaseReward.sensitivity 0.01 m^2, in (0.0001 m)^2
joint_sensitivity == 100        \* StandStillReward.sensitivity 0.01, in (0.01 rad)^2
max_foot_height == 1200         \* 0.12 m
max_contact_force == 350
soft_limit_factor == 95         \* 0.95, in percent
joint_targets == <<10, -20>>

\* get_reward returned an array / raised an exception naming a key
Returned(value) == [raised |-> "", key |-> "", value |-> value]
Raised(kind, key) == [raised |-> kind, key |-> key, value |-> <<>>]

\* name in trajectory.obs, name in trajectory.command
Has(mapping, name) == name \in DOMAIN mapping

TimeSteps(traj) == 1..Len(traj.timestep)

\* x * (b) for a boolean b, as in reward *= gate
Gate(x, b) == IF b THEN x ELSE 0

\* a reward reference whose two feet start in phase
FeetPhaseReward_phase_SameStart(time, gait_freq) ==
    LET phase_dt == (TwoPi * gait_freq * ctrl_dt) \div UnitsPerCycle
        steps == time \div ctrl_dt
    IN  [i \in 1..2 |-> fmod(steps * phase_dt + Pi, TwoPi) - Pi]

\* FeetPhaseReward.get_reward, lines 272-278: the per-foot phase of a timestep
\*   steps = jnp.int32(timestep / ctrl_dt);  phase = start_phase + steps * phase_dt
FeetPhaseReward_phase(time, gait_freq) ==
    LET phase_dt == (TwoPi * gait_freq * ctrl_dt) \div UnitsPerCycle
        steps == time \div ctrl_dt
        start_phase == <<0, Pi>>
    IN  [i \in 1..2 |-> fmod(start_phase[i] + steps * phase_dt + Pi, TwoPi) - Pi]

\* FeetPhaseReward.get_reward
FeetPhaseReward_get_reward(threshold, traj) ==
    IF ~Has(traj.obs, feet_pos_obs_name)
      THEN Raised("ValueError", feet_pos_obs_name)
    ELSE IF ~Has(traj.command, gait_freq_cmd_name)
      THEN Raised("ValueError", gait_freq_cmd_name)
    ELSE IF ~Has(traj.command, linear_velocity_cmd_name)
      THEN Raised("KeyError", linear_velocity_cmd_name)
    ELSE IF ~Has(traj.command, angular_velocity_cmd_name)
      THEN Raised("KeyError", angular_velocity_cmd_name)
    ELSE Returned([t \in TimeSteps(traj) |->
            LET gait_freq_n == traj.command[gait_freq_cmd_name][t][1]
                phase == FeetPhaseReward_phase(traj.timestep[t], gait_freq_n)
                foot_pos == traj.obs[feet_pos_obs_name][t]
                foot_z == <<foot_pos[3], foot_pos[6]>>
                ideal_z == [i \in 1..2 |-> gait_phase(phase[i], max_foot_height).height]
                error == SumSq([i \in 1..2 |-> foot_z[i] - ideal_z[i]])
                reward == exp_neg(error, foot_sensitivity)
                vel_cmd == traj.command[linear_velocity_cmd_name][t]
                ang_vel_cmd == traj.command[angular_velocity_cmd_name][t]
            IN  Gate(reward, NormGreater(vel_cmd \o ang_vel_cmd, threshold))])

\* the tracking reward without its stand-still gate
LinearVelocityTrackingReward_get_reward_Ungated(threshold, traj) ==
    IF ~Has(traj.obs, linvel_obs_name)
      THEN Raised("ValueError", linvel_obs_name)
    ELSE IF ~Has(traj.command, linear_velocity_cmd_name)
      THEN Raised("KeyError", linear_velocity_cmd_name)
    ELSE Returned([t \in TimeSteps(traj) |->
            LET command == traj.command[linear_velocity_cmd_name][t]
                linvel == SubSeq(traj.obs[linvel_obs_name][t], 1, 2)
                lin_vel_error == SumSq([i \in 1..2 |-> command[i] - linvel[i]])
            IN  exp_neg(lin_vel_error, error_scale)])

\* LinearVelocityTrackingReward.get_reward; xax.get_norm(x, "l2") is the
\* elementwise square
LinearVelocityTrackingReward_get_reward(threshold, traj) ==
    IF ~Has(traj.obs, linvel_obs_name)
      THEN Raised("ValueError", linvel_obs_name)
    ELSE IF ~Has(traj.command, linear_velocity_cmd_name)
      THEN Raised("KeyError", linear_velocity_cmd_name)
    ELSE Returned([t \in TimeSteps(traj) |->
            LET command == traj.command[linear_velocity_cmd_name][t]
                linvel == SubSeq(traj.obs[linvel_obs_name][t], 1, 2)
                lin_vel_error == SumSq([i \in 1..2 |-> command[i] - linvel[i]])
                reward_value == exp_neg(lin_vel_error, error_scale)
            IN  Gate(reward_value, NormGreater(command, threshold))])

\* the tracking reward as the raw negative error
AngularVelocityTrackingReward_get_reward_RawError(threshold, traj) ==
    IF ~Has(traj.obs, angvel_obs_name)
      THEN Raised("ValueError", angvel_obs_name)
    ELSE IF ~Has(traj.command, angular_velocity_cmd_name)
      THEN Raised("KeyError", angular_velocity_cmd_name)
    ELSE Returned([t \in TimeSteps(traj) |->
            LET command == traj.command[angular_velocity_cmd_name][t]
                angvel == traj.obs[angvel_obs_name][t][3]
                ang_vel_error == (command[1] - angvel) * (command[1] - angvel)
            IN  Gate(-ang_vel_error, NormGreater(command, threshold))])

\* AngularVelocityTrackingReward.get_reward
AngularVelocityTrackingReward_get_reward(threshold, traj) ==
    IF ~Has(traj.obs, angvel_obs_name)
      THEN Raised("ValueError", angvel_obs_name)
    ELSE IF ~Has(traj.command, angular_velocity_cmd_name)
      THEN Raised("KeyError", angular_velocity_cmd_name)
    ELSE Returned([t \in TimeSteps(traj) |->
            LET command == traj.command[angular_velocity_cmd_name][t]
                angvel == traj.obs[angvel_obs_name][t][3]
                ang_vel_error == (command[1] - angvel) * (command[1] - angvel)
                reward_value == exp_neg(ang_vel_error, error_scale)
            IN  Gate(reward_value, NormGreater(command, threshold))])

\* ContactForcePenalty.get_reward
ContactForcePenalty_get_reward(traj) ==
    IF \E b \in 1..Len(sensor_names) : ~Has(traj.obs, sensor_names[b])
      THEN LET b == CHOOSE c \in 1..Len(sensor_names) :
                        /\ ~Has(traj.obs, sensor_names[c])
                        /\ \A d \in 1..(c - 1) : Has(traj.obs, sensor_names[d])
           IN  Raised("ValueError", sensor_names[b])
    ELSE Returned([t \in TimeSteps(traj) |->
            LET forces_3b == [b \in 1..Len(sensor_names) |-> traj.obs[sensor_names[b]][t]]
                cost == [b \in 1..Len(sensor_names) |->
                            LET a == forces_3b[b][3]
                                abs == IF a < 0 THEN -a ELSE a
                            IN  IF abs - max_contact_force < 0 THEN 0
                                ELSE abs - max_contact_force]
            IN  SumSeq(cost)])

\* FeetSlipPenalty.get_reward
FeetSlipPenalty_get_reward(traj) ==
    IF ~Has(traj.obs, feet_contact_obs_name)
      THEN Raised("ValueError", feet_contact_obs_name)
    ELSE IF ~Has(traj.obs, com_vel_obs_name)
      THEN Raised("KeyError", com_vel_obs_name)
    ELSE Returned([t \in TimeSteps(traj) |->
            LET contact == traj.obs[feet_contact_obs_name][t]
                body_vel == SubSeq(traj.obs[com_vel_obs_name][t], 1, 2)
                normed_body_vel == Sqrt(SumSq(body_vel))
            IN  SumSeq([i \in 1..Len(contact) |-> normed_body_vel * contact[i]])])

\* create that takes the hard limits as they are
JointPositionLimitPenalty_create_HardLimits(jnt_range) ==
    LET joints == Tail(jnt_range)
    IN  [lower_limits |-> [j \in 1..Len(joints) |-> joints[j][1]],
         upper_limits |-> [j \in 1..Len(joints) |-> joints[j][2]]]

\* JointPositionLimitPenalty.create: the first joint is the freejoint
JointPositionLimitPenalty_create(jnt_range) ==
    LET joints == Tail(jnt_range)
        lowers == [j \in 1..Len(joints) |-> joints[j][1]]
        uppers == [j \in 1..Len(joints) |-> joints[j][2]]
        center == [j \in 1..Len(joints) |-> (lowers[j] + uppers[j]) \div 2]
        range == [j \in 1..Len(joints) |-> uppers[j] - lowers[j]]
        half == [j \in 1..Len(joints) |-> (range[j] * soft_limit_factor) \div 200]
    IN  [lower_limits |-> [j \in 1..Len(joints) |-> center[j] - half[j]],
         upper_limits |-> [j \in 1..Len(joints) |-> center[j] + half[j]]]

\* JointPositionLimitPenalty.get_reward
JointPositionLimitPenalty_get_reward(limits, traj) ==
    Returned([t \in TimeSteps(traj) |->
        LET qpos == traj.qpos[t]
            joints == SubSeq(qpos, 8, Len(qpos))
            below == [j \in 1..Len(joints) |->
                         IF joints[j] - limits.lower_limits[j] > 0 THEN 0
                         ELSE joints[j] - limits.lower_limits[j]]
            above == [j \in 1..Len(joints) |->
                         IF joints[j] - limits.upper_limits[j] < 0 THEN 0
                         ELSE joints[j] - limits.upper_limits[j]]
            penalty == [j \in 1..Len(joints) |-> -below[j] + above[j]]
        IN  SumSeq(penalty)])

\* the stand-still reward without its gate
StandStillReward_get_reward_Ungated(threshold, traj) ==
    IF ~Has(traj.command, linear_velocity_cmd_name)
      THEN Raised("KeyError", linear_velocity_cmd_name)
    ELSE IF ~Has(traj.command, angular_velocity_cmd_name)
      THEN Raised("KeyError", angular_velocity_cmd_name)
    ELSE Returned([t \in TimeSteps(traj) |->
            LET qpos == traj.qpos[t]
                joints == SubSeq(qpos, 8, Len(qpos))
                error == SumSq([j \in 1..Len(joints) |-> joints[j] - joint_targets[j]])
            IN  exp_neg(error, joint_sensitivity)])

\* StandStillReward.get_reward
StandStillReward_get_reward(threshold, traj) ==
    IF ~Has(traj.command, linear_velocity_cmd_name)
      THEN Raised("KeyError", linear_velocity_cmd_name)
    ELSE IF ~Has(traj.command, angular_velocity_cmd_name)
      THEN Raised("KeyError", angular_velocity_cmd_name)
    ELSE Returned([t \in TimeSteps(traj) |->
            LET vel_cmd == traj.command[linear_velocity_cmd_name][t]
                ang_vel_cmd == traj.command[angular_velocity_cmd_name][t]
                qpos == traj.qpos[t]
                joints == SubSeq(qpos, 8, Len(qpos))
                error == SumSq([j \in 1..Len(joints) |-> joints[j] - joint_targets[j]])
                reward == exp_neg(error, joint_sensitivity)
            IN  Gate(reward, NormLess(vel_cmd \o ang_vel_cmd, threshold))])

\* the penalty on every finished episode
TerminationPenalty_get_reward_AnyDone(traj) ==
    Returned([t \in TimeSteps(traj) |-> traj.done[t]])

\* TerminationPenalty.get_reward
TerminationPenalty_get_reward(traj) ==
    Returned([t \in TimeSteps(traj) |->
                 traj.done[t] /\ ~traj.success[t]])

(* Trajectories the reward terms are applied to *)

TrajLen == 2        \* timesteps of a trajectory

ObsKeys ==
    {feet_pos_obs_name, linvel_obs_name, angvel_obs_name, com_vel_obs_name,
     feet_contact_obs_name, sensor_names[1], sensor_names[2]}
CommandKeys == {linear_velocity_cmd_name, angular_velocity_cmd_name, gait_freq_cmd_name}

RewardLinearCommands == {<<0, 0>>, <<1, 0>>, <<50, 0>>}
StartTimes == {0, 21}
ErrorLevels == 0..2
JntRanges ==
    {<< <<0, 0>>, <<-40, 40>>, <<0, 80>> >>, << <<0, 0>>, <<-20, 60>>, <<-80, 0>> >>}
JointPositions == {-41, -38, 0, 38, 40, 58}
SecondJointPositions == {2, 80}

\* the foot heights the gait-phase reward expects at a time
IdealFootZ(time, gait_freq) ==
    [i \in 1..2 |-> gait_phase(FeetPhaseReward_phase(time, gait_freq)[i], max_foot_height).height]

\* one timestep of a rollout that follows its commands exactly and stays in
\* the neutral pose
BaseFrame(time, gait_freq, lin, ang) ==
    [linear_velocity_command |-> lin,
     angular_velocity_command |-> ang,
     gait_frequency_command |-> <<gait_freq>>,
     linvel |-> <<lin[1], lin[2], 7>>,
     angvel |-> <<3, 4, ang[1]>>,
     feet_position |-> <<1, 2, IdealFootZ(time, gait_freq)[1],
                         4, 5, IdealFootZ(time, gait_freq)[2]>>,
     feet_contact |-> <<1, 0>>,
     com_vel |-> <<3, 4, 12>>,
     forces |-> << <<5, 6, -360>>, <<7, 8, 100>> >>,
     joints |-> joint_targets,
     done |-> FALSE,
     success |-> FALSE]

\* the same timestep with every tracked quantity off by a level of error
TrackingFrame(time, gait_freq, lin, ang, d) ==
    LET base == BaseFrame(time, gait_freq, lin, ang)
        off == IF d > 0 THEN 1 ELSE 0
    IN  [base EXCEPT
            !.linvel = <<lin[1] + 25 * d, lin[2], 7>>,
            !.angvel = <<3, 4, ang[1] + 25 * off>>,
            !.feet_position = <<1, 2, base.feet_position[3] + 500 * off,
                                4, 5, base.feet_position[6]>>,
            !.joints = <<joint_targets[1] + 5 * off, joint_targets[2]>>]

\* ksim.Trajectory: the stacked timesteps; the keys in absent are not recorded
MakeTrajectory(frames, t0, absent) ==
    LET T == 1..Len(frames)
        ObsValue(k, t) ==
            CASE k = feet_pos_obs_name -> frames[t].feet_position
              [] k = linvel_obs_name -> frames[t].linvel
              [] k = angvel_obs_name -> frames[t].angvel
              [] k = com_vel_obs_name -> frames[t].com_vel
              [] k = feet_contact_obs_name -> frames[t].feet_contact
              [] k = sensor_names[1] -> frames[t].forces[1]
              [] k = sensor_names[2] -> frames[t].forces[2]
        CommandValue(k, t) ==
            CASE k = linear_velocity_cmd_name -> frames[t].linear_velocity_command
              [] k = angular_velocity_cmd_name -> frames[t].angular_velocity_command
              [] k = gait_freq_cmd_name -> frames[t].gait_frequency_command
    IN  [obs |-> [k \in ObsKeys \ absent |-> [t \in T |-> ObsValue(k, t)]],
         command |-> [k \in CommandKeys \ absent |-> [t \in T |-> CommandValue(k, t)]],
         qpos |-> [t \in T |-> <<0, 0, 90, 1, 0, 0, 0>> \o frames[t].joints],
         timestep |-> [t \in T |-> t0 + (t - 1) * ctrl_dt],
         done |-> [t \in T |-> frames[t].done],
         success |-> [t \in T |-> frames[t].success]]

TimeOf(t0, t) == t0 + (t - 1) * ctrl_dt

\* rollouts under every command, followed exactly or with an error
TrackingTrajectories ==
    {MakeTrajectory([t \in 1..TrajLen |->
                        TrackingFrame(TimeOf(t0, t), f, c[t][1], c[t][2], c[t][3])],
                    t0, {}) :
        t0 \in StartTimes, f \in GaitFrequencies,
        c \in [1..TrajLen -> RewardLinearCommands \X AngularVelocityCommands \X ErrorLevels]}

\* rollouts whose joints are inside, on and beyond the soft limits
PositionTrajectories ==
    {MakeTrajectory([t \in 1..TrajLen |->
                        [BaseFrame(TimeOf(0, t), 4, <<50, 0>>, <<0>>)
                            EXCEPT !.joints = q[t]]],
                    0, {}) :
        q \in [1..TrajLen -> JointPositions \X SecondJointPositions]}

\* rollouts that end, or not, with or without success
TerminationTrajectories ==
    {MakeTrajectory([t \in 1..TrajLen |->
                        [BaseFrame(TimeOf(0, t), 4, <<50, 0>>, <<0>>)
                            EXCEPT !.done = e[t][1], !.success = e[t][2]]],
                    0, {}) :
        e \in [1..TrajLen -> BOOLEAN \X BOOLEAN]}

\* rollouts of a task that does not record some observations or commands
IncompleteTrajectories ==
    {MakeTrajectory([t \in 1..TrajLen |-> BaseFrame(TimeOf(0, t), 4, <<50, 0>>, <<0>>)],
                    0, absent) :
        absent \in SUBSET (ObsKeys \cup CommandKeys)}

\* get_reward not called yet
NoRewards ==
    [FeetPhaseReward |-> Returned(<<>>),
     LinearVelocityTrackingReward |-> Returned(<<>>),
     AngularVelocityTrackingReward |-> Returned(<<>>),
     ContactForcePenalty |-> Returned(<<>>),
     FeetSlipPenalty |-> Returned(<<>>),
     JointPositionLimitPenalty |-> Returned(<<>>),
     StandStillReward |-> Returned(<<>>),
     TerminationPenalty |-> Returned(<<>>)]

InitReward ==
    /\ \/ /\ reward_traj \in TrackingTrajectories
          /\ reward_cfg \in [stand_still_threshold : StandStillThresholds,
                             jnt_range : {CHOOSE r \in JntRanges : r[2][1] = -40}]
       \/ /\ reward_traj \in PositionTrajectories \cup TerminationTrajectories
          /\ reward_cfg \in [stand_still_threshold : {1}, jnt_range : JntRanges]
       \/ /\ reward_traj \in IncompleteTrajectories
          /\ reward_cfg \in [stand_still_threshold : {1},
                             jnt_range : {CHOOSE r \in JntRanges : r[2][1] = -40}]
    /\ rewards = NoRewards
    /\ IdleEval /\ IdlePhase /\ IdleGait /\ IdleActor /\ IdleCmd

\* every reward term is applied to the trajectory
GetRewards ==
    /\ rewards = NoRewards
    /\ rewards' =
          [FeetPhaseReward |->
               FeetPhaseReward_get_reward(reward_cfg.stand_still_threshold, reward_traj),
           LinearVelocityTrackingReward |->
               LinearVelocityTrackingReward_get_reward(reward_cfg.stand_still_threshold,
                                                       reward_traj),
           AngularVelocityTrackingReward |->
               AngularVelocityTrackingReward_get_reward(reward_cfg.stand_still_threshold,
                                                        reward_traj),
           ContactForcePenalty |-> ContactForcePenalty_get_reward(reward_traj),
           FeetSlipPenalty |-> FeetSlipPenalty_get_reward(reward_traj),
           JointPositionLimitPenalty |->
               JointPositionLimitPenalty_get_reward(
                   JointPositionLimitPenalty_create(reward_cfg.jnt_range), reward_traj),
           StandStillReward |->
               StandStillReward_get_reward(reward_cfg.stand_still_threshold, reward_traj),
           TerminationPenalty |-> TerminationPenalty_get_reward(reward_traj)]
    /\ UNCHANGED <<reward_cfg, reward_traj>>
    /\ UNCHANGED <<varsEval, varsPhase, varsGait, varsActor, varsCmd>>

NextReward == GetRewards

SpecReward == InitReward /\ [][NextReward]_vars

Computed == rewards # NoRewards

\* every key is recorded, so every term returned
Complete ==
    /\ DOMAIN reward_traj.obs = ObsKeys
    /\ DOMAIN reward_traj.command = CommandKeys

CommandAt(t) ==
    reward_traj.command[linear_velocity_cmd_name][t]
        \o reward_traj.command[angular_velocity_cmd_name][t]

Threshold == reward_cfg.stand_still_threshold

\* the observed velocity of timestep t equals the commanded one
Followed(t) ==
    /\ SubSeq(reward_traj.obs[linvel_obs_name][t], 1, 2)
           = reward_traj.command[linear_velocity_cmd_name][t]
    /\ reward_traj.obs[angvel_obs_name][t][3]
           = reward_traj.command[angular_velocity_cmd_name][t][1]

\* C13: at every timestep where the command magnitude (the norm of the
\* linear and angular command together) is below the stand-still threshold,
\* LinearVelocityTrackingReward, AngularVelocityTrackingReward and
\* FeetPhaseReward each return exactly 0, whatever was observed.
Thm_C13_GatedToZero ==
    (Computed /\ Complete) =>
        \A t \in TimeSteps(reward_traj) :
            NormLess(CommandAt(t), Threshold) =>
                /\ rewards.LinearVelocityTrackingReward.value[t] = 0
                /\ rewards.AngularVelocityTrackingReward.value[t] = 0
                /\ rewards.FeetPhaseReward.value[t] = 0

\* a small non-zero command followed exactly gets reward 0 from the three
\* terms, next to a timestep with a large command that is rewarded
Wit_C13_GatedToZero ==
    /\ Computed /\ Complete
    /\ CommandAt(1) = <<1, 0, 1>> /\ Threshold = 2
    /\ Followed(1)
    /\ rewards.LinearVelocityTrackingReward.value[1] = 0
    /\ rewards.AngularVelocityTrackingReward.value[1] = 0
    /\ rewards.FeetPhaseReward.value[1] = 0
    /\ rewards.LinearVelocityTrackingReward.value[2] > 0

Value(term, t) == rewards[term].value[t]

\* C14 as stated: at every timestep the stand-still reward is non-zero
\* exactly where the tracking and gait-phase rewards are all zero, and zero
\* exactly where they are all non-zero (never both open, never both closed).
Orig_C14_ComplementaryGate ==
    (Computed /\ Complete) =>
        \A t \in TimeSteps(reward_traj) :
            /\ Value("StandStillReward", t) # 0 <=>
                  /\ Value("LinearVelocityTrackingReward", t) = 0
                  /\ Value("AngularVelocityTrackingReward", t) = 0
                  /\ Value("FeetPhaseReward", t) = 0
            /\ Value("StandStillReward", t) = 0 <=>
                  /\ Value("LinearVelocityTrackingReward", t) # 0
                  /\ Value("AngularVelocityTrackingReward", t) # 0
                  /\ Value("FeetPhaseReward", t) # 0

\* C14, amended: the gates are disjoint but not complementary.  With n the
\* norm of the linear and angular command together: n < threshold opens the
\* stand-still reward and closes the other three; n > threshold closes the
\* stand-still reward and opens the gait-phase reward; n = threshold closes
\* all four; and each tracking reward is open exactly when the norm of its
\* own command exceeds the threshold.
Thm_C14_ComplementaryGate ==
    (Computed /\ Complete) =>
        \A t \in TimeSteps(reward_traj) :
            LET cmd == CommandAt(t)
                lin == reward_traj.command[linear_velocity_cmd_name][t]
                ang == reward_traj.command[angular_velocity_cmd_name][t]
                others == {"LinearVelocityTrackingReward",
                           "AngularVelocityTrackingReward", "FeetPhaseReward"}
            IN  /\ NormLess(cmd, Threshold) =>
                      /\ Value("StandStillReward", t) > 0
                      /\ \A r \in others : Value(r, t) = 0
                /\ NormGreater(cmd, Threshold) =>
                      /\ Value("StandStillReward", t) = 0
                      /\ Value("FeetPhaseReward", t) > 0
                /\ SumSq(cmd) = Threshold * Threshold =>
                      /\ Value("StandStillReward", t) = 0
                      /\ \A r \in others : Value(r, t) = 0
                /\ Value("LinearVelocityTrackingReward", t) # 0 <=> NormGreater(lin, Threshold)
                /\ Value("AngularVelocityTrackingReward", t) # 0 <=> NormGreater(ang, Threshold)

\* a command whose norm equals the threshold closes all four terms, and at
\* the next timestep a command above it leaves the stand-still reward and
\* both tracking rewards at zero while the gait-phase reward is open
Wit_C14_ComplementaryGate ==
    /\ Computed /\ Complete
    /\ Threshold = 1
    /\ CommandAt(1) = <<1, 0, 0>>
    /\ Value("StandStillReward", 1) = 0 /\ Value("FeetPhaseReward", 1) = 0
    /\ Value("LinearVelocityTrackingReward", 1) = 0
    /\ CommandAt(2) = <<1, 0, 1>>
    /\ Value("StandStillReward", 2) = 0 /\ Value("FeetPhaseReward", 2) > 0
    /\ Value("LinearVelocityTrackingReward", 2) = 0
    /\ Value("AngularVelocityTrackingReward", 2) = 0

TrackingStyle ==
    {"LinearVelocityTrackingReward", "AngularVelocityTrackingReward",
     "FeetPhaseReward", "StandStillReward"}

\* the error the term measures at timestep t is zero
ZeroError(term, t) ==
    CASE term = "LinearVelocityTrackingReward" ->
            SubSeq(reward_traj.obs[linvel_obs_name][t], 1, 2)
                = reward_traj.command[linear_velocity_cmd_name][t]
      [] term = "AngularVelocityTrackingReward" ->
            reward_traj.obs[angvel_obs_name][t][3]
                = reward_traj.command[angular_velocity_cmd_name][t][1]
      [] term = "FeetPhaseReward" ->
            <<reward_traj.obs[feet_pos_obs_name][t][3],
              reward_traj.obs[feet_pos_obs_name][t][6]>>
                = IdealFootZ(reward_traj.timestep[t],
                             reward_traj.command[gait_freq_cmd_name][t][1])
      [] term = "StandStillReward" ->
            SubSeq(reward_traj.qpos[t], 8, Len(reward_traj.qpos[t])) = joint_targets

\* the gate of the term is open at timestep t
Open(term, t) ==
    CASE term = "LinearVelocityTrackingReward" ->
            NormGreater(reward_traj.command[linear_velocity_cmd_name][t], Threshold)
      [] term = "AngularVelocityTrackingReward" ->
            NormGreater(reward_traj.command[angular_velocity_cmd_name][t], Threshold)
      [] term = "FeetPhaseReward" -> NormGreater(CommandAt(t), Threshold)
      [] term = "StandStillReward" -> NormLess(CommandAt(t), Threshold)

\* C15 as stated: every tracking-style reward is in (0, 1] at every
\* timestep, and is 1 at zero error.
Orig_C15_UnitInterval ==
    (Computed /\ Complete) =>
        \A t \in TimeSteps(reward_traj) : \A term \in TrackingStyle :
            /\ 0 < Value(term, t) /\ Value(term, t) <= One
            /\ ZeroError(term, t) => Value(term, t) = One

\* C15, amended: every tracking-style reward is in [0, 1] at every
\* timestep; it is exactly 0 where its stand-still gate is closed, whatever
\* the error, and where the gate is open it is in (0, 1] and is 1 at zero
\* error.
Thm_C15_UnitInterval ==
    (Computed /\ Complete) =>
        \A t \in TimeSteps(reward_traj) : \A term \in TrackingStyle :
            /\ 0 <= Value(term, t) /\ Value(term, t) <= One
            /\ ~Open(term, t) => Value(term, t) = 0
            /\ Open(term, t) => Value(term, t) > 0
            /\ (Open(term, t) /\ ZeroError(term, t)) => Value(term, t) = One
            /\ (Open(term, t) /\ ~ZeroError(term, t)) => Value(term, t) < One

\* at one timestep with zero error everywhere, the gait-phase reward is 1
\* and the linear tracking reward is gated to 0
Wit_C15_UnitInterval ==
    /\ Computed /\ Complete
    /\ \E t \in TimeSteps(reward_traj) :
          /\ \A term \in TrackingStyle : ZeroError(term, t)
          /\ Value("FeetPhaseReward", t) = One
          /\ Value("LinearVelocityTrackingReward", t) = 0
          /\ Value("StandStillReward", t) = 0

\* the squared norm of the linear velocity error at timestep t
LinVelError(t) ==
    LET command == reward_traj.command[linear_velocity_cmd_name][t]
        linvel == reward_traj.obs[linvel_obs_name][t]
    IN  SumSq([i \in 1..2 |-> command[i] - linvel[i]])

\* C16: where the linear command's norm is above the threshold and the
\* first two components of the observed velocity equal the command,
\* LinearVelocityTrackingReward is exactly 1; and of two such timesteps the
\* one with the larger velocity error has the strictly smaller reward.
Thm_C16_LinearTracking ==
    (Computed /\ Complete) =>
        \A t \in TimeSteps(reward_traj) :
            Open("LinearVelocityTrackingReward", t) =>
                /\ LinVelError(t) = 0 => Value("LinearVelocityTrackingReward", t) = One
                /\ \A u \in TimeSteps(reward_traj) :
                      (Open("LinearVelocityTrackingReward", u)
                          /\ LinVelError(t) < LinVelError(u)) =>
                         Value("LinearVelocityTrackingReward", t)
                             > Value("LinearVelocityTrackingReward", u)

\* command (0.5, 0.0) observed as (0.5, 0.0) gives 1, and the same command
\* observed as (0.75, 0.0) gives exp(-0.25) < 1
Wit_C16_LinearTracking ==
    /\ Computed /\ Complete
    /\ reward_traj.command[linear_velocity_cmd_name][1] = <<50, 0>>
    /\ reward_traj.command[linear_velocity_cmd_name][2] = <<50, 0>>
    /\ SubSeq(reward_traj.obs[linvel_obs_name][1], 1, 2) = <<50, 0>>
    /\ SubSeq(reward_traj.obs[linvel_obs_name][2], 1, 2) = <<75, 0>>
    /\ Value("LinearVelocityTrackingReward", 1) = One
    /\ Value("LinearVelocityTrackingReward", 2) = ExpQuarterStep

\* center -/+ 0.5 * range * 0.95 of joint j, times 40: 20 (lo + hi) -/+ 19 (hi - lo)
SoftLower40(j) ==
    LET lo == reward_cfg.jnt_range[j + 1][1]
        hi == reward_cfg.jnt_range[j + 1][2]
    IN  20 * (lo + hi) - 19 * (hi - lo)
SoftUpper40(j) ==
    LET lo == reward_cfg.jnt_range[j + 1][1]
        hi == reward_cfg.jnt_range[j + 1][2]
    IN  20 * (lo + hi) + 19 * (hi - lo)

\* how far joint j is beyond its nearer soft limit at timestep t, times 40
Beyond40(j, t) ==
    LET q == 40 * reward_traj.qpos[t][7 + j]
    IN  IF q < SoftLower40(j) THEN SoftLower40(j) - q
        ELSE IF q > SoftUpper40(j) THEN q - SoftUpper40(j)
        ELSE 0

Joints == 1..(Len(reward_cfg.jnt_range) - 1)

\* C17: the soft limits are center -/+ 0.5 * range * soft_limit_factor; a
\* joint within them, boundaries included, adds 0 and a joint beyond adds
\* its distance from the nearer soft limit, below as well as above; the
\* term is the sum over the joints and is never negative.
Thm_C17_JointLimitPenalty ==
    Computed =>
        LET limits == JointPositionLimitPenalty_create(reward_cfg.jnt_range)
        IN  /\ \A j \in Joints :
                  /\ 40 * limits.lower_limits[j] = SoftLower40(j)
                  /\ 40 * limits.upper_limits[j] = SoftUpper40(j)
            /\ \A t \in TimeSteps(reward_traj) :
                  /\ Value("JointPositionLimitPenalty", t) >= 0
                  /\ 40 * Value("JointPositionLimitPenalty", t)
                        = SumSeq([j \in Joints |-> Beyond40(j, t)])

\* limits (-0.38, 0.38) and (0.02, 0.78): first a joint on its lower soft
\* limit next to one 0.02 above its upper limit, then a joint 0.03 below
\* its lower limit next to one on its lower limit
Wit_C17_JointLimitPenalty ==
    /\ Computed
    /\ reward_cfg.jnt_range[2] = <<-40, 40>>
    /\ SubSeq(reward_traj.qpos[1], 8, 9) = <<-38, 80>>
    /\ SubSeq(reward_traj.qpos[2], 8, 9) = <<-41, 2>>
    /\ Value("JointPositionLimitPenalty", 1) = 2
    /\ Value("JointPositionLimitPenalty", 2) = 3

\* C18: TerminationPenalty is non-zero at a timestep exactly when the
\* timestep is done and not successful.
Thm_C18_TerminationPenalty ==
    Computed =>
        \A t \in TimeSteps(reward_traj) :
            rewards.TerminationPenalty.value[t]
                <=> (reward_traj.done[t] /\ ~reward_traj.success[t])

\* a failed end is penalised and a successful end is not
Wit_C18_TerminationPenalty ==
    /\ Computed
    /\ reward_traj.done[1] /\ ~reward_traj.success[1]
    /\ reward_traj.done[2] /\ reward_traj.success[2]
    /\ Value("TerminationPenalty", 1) /\ ~Value("TerminationPenalty", 2)

\* the observation and command keys each term reads
KeysRead ==
    [FeetPhaseReward |-> {feet_pos_obs_name, gait_freq_cmd_name,
                          linear_velocity_cmd_name, angular_velocity_cmd_name},
     LinearVelocityTrackingReward |-> {linvel_obs_name, linear_velocity_cmd_name},
     AngularVelocityTrackingReward |-> {angvel_obs_name, angular_velocity_cmd_name},
     ContactForcePenalty |-> {sensor_names[1], sensor_names[2]},
     FeetSlipPenalty |-> {feet_contact_obs_name, com_vel_obs_name},
     StandStillReward |-> {linear_velocity_cmd_name, angular_velocity_cmd_name}]

Recorded == DOMAIN reward_traj.obs \cup DOMAIN reward_traj.command

\* C19: every reward term that reads a key the trajectory does not record
\* fails with the descriptive configuration error (ValueError) naming a
\* missing key it reads, never with another failure and never with a result.
Orig_C19_KeyValidation ==
    Computed =>
        \A term \in DOMAIN KeysRead :
            (KeysRead[term] \ Recorded # {}) =>
                /\ rewards[term].raised = "ValueError"
                /\ rewards[term].key \in KeysRead[term] \ Recorded

----------------------------------------------------------------------------
(* Actor/critic asymmetry *)

PrivilegedFields ==
    <<"feet_contact_observation", "feet_position_observation",
      "base_position_observation", "base_orientation_observation",
      "base_linear_velocity_observation", "base_angular_velocity_observation",
      "actuator_force_observation">>

\* by how much a privileged observation is changed
PrivilegedShift == 101

\* the observations with one privileged field changed
Changed(observations) ==
    {[observations EXCEPT ![PrivilegedFields[i]] = @ + PrivilegedShift] :
        i \in 1..Len(PrivilegedFields)}

\* the privileged part of the critic's input, as the critic scales it
PrivilegedInput(observations) ==
    [i \in 1..Len(PrivilegedFields) |->
        IF PrivilegedFields[i] = "actuator_force_observation"
          THEN observations[PrivilegedFields[i]] \div 100
          ELSE observations[PrivilegedFields[i]]]

\* C20: the actor never receives privileged fields.  At the step the
\* rollout has just taken and at the step the scan has just evaluated (so
\* at every step), changing a privileged observation changes neither
\* run_actor's distribution and next memory, nor sample_action's action and
\* actor memory, nor scan_fn's log-probability and actor memory; and the
\* critic's input is the actor's nine fields in the actor's order (the
\* joint velocity divided by 10) followed by exactly the seven privileged
\* fields (the actuator force divided by 100).
Thm_C20_ActorUnprivileged ==
    /\ Len(sampled) >= 1 =>
          LET k == Len(sampled)
              observations == trajectory[k].obs
              commands == trajectory[k].command
              mem == sampled[k].carry_in
              out == run_actor(observations, commands, mem[1])
              act == [rng \in RngKeys |->
                         sample_action(mem, observations, commands, rng, argmax)]
          IN  \A o \in Changed(observations) :
                 /\ run_actor(o, commands, mem[1]) = out
                 /\ \A rng \in RngKeys :
                       sample_action(mem, o, commands, rng, argmax) = act[rng]
    /\ Len(fed) >= 1 =>
          LET k == Len(fed)
              was == scan_fn(fed[k], trajectory[k])
          IN  /\ was.transition_ppo_variables = ppo_variables[k]
              /\ \A o \in Changed(trajectory[k].obs) :
                    LET is == scan_fn(fed[k], [trajectory[k] EXCEPT !.obs = o])
                    IN  /\ is.transition_ppo_variables.log_probs
                              = was.transition_ppo_variables.log_probs
                        /\ is.next_carry[1] = was.next_carry[1]
    /\ Len(trajectory) >= 1 =>
          LET k == Len(trajectory)
              observations == trajectory[k].obs
              commands == trajectory[k].command
              actor == actor_obs_n(observations, commands)
              critic == critic_obs_n(observations, commands)
          IN  /\ Len(critic) = Len(actor) + Len(PrivilegedFields)
              /\ \A i \in 1..Len(actor) :
                    critic[i] = IF i = 3 THEN actor[i] \div 10 ELSE actor[i]
              /\ SubSeq(critic, Len(actor) + 1, Len(critic)) = PrivilegedInput(observations)

\* a scanned step where a change of a privileged observation changes the
\* critic's value but nothing of the actor
Wit_C20_ActorUnprivileged ==
    /\ Len(fed) >= 2
    /\ \E o \in Changed(trajectory[2].obs) :
          LET was == scan_fn(fed[2], trajectory[2])
              is == scan_fn(fed[2], [trajectory[2] EXCEPT !.obs = o])
          IN  /\ is.transition_ppo_variables.values # was.transition_ppo_variables.values
              /\ is.transition_ppo_variables.log_probs = was.transition_ppo_variables.log_probs
              /\ is.next_carry[1] = was.next_carry[1]
              /\ is.next_carry[2] # was.next_carry[2]

----------------------------------------------------------------------------
(* History independence of the re-evaluation *)

\* get_ppo_variables(trajectory, model_carry): jax.lax.scan(scan_fn, model_carry,
\* trajectory), giving the stacked outputs and the last carry
RECURSIVE get_ppo_variables(_, _)
get_ppo_variables(transitions, carry_pair) ==
    IF transitions = <<>>
      THEN [ppo_variables |-> <<>>, next_model_carry |-> carry_pair]
      ELSE LET out == scan_fn(carry_pair, Head(transitions))
               rest == get_ppo_variables(Tail(transitions), out.next_carry)
           IN  [ppo_variables |-> <<out.transition_ppo_variables>> \o rest.ppo_variables,
                next_model_carry |-> rest.next_model_carry]

\* C21: if step t of the scanned chunk is done, the (log_prob, value)
\* pairs of all later steps and the memory pair the scan carries (and
\* returns) are those of a scan of the later transitions alone, started
\* from get_initial_model_carry: they depend neither on the initial carry
\* pair nor on the transitions up to t; and a scan of the whole chunk from
\* any other initial carry pair gives the same outputs after t.
Thm_C21_HistoryIndependence ==
    LET k == Len(fed)
    IN  \A t \in 1..k :
           trajectory[t].done =>
              LET alone == get_ppo_variables(SubSeq(trajectory, t + 1, k),
                                             get_initial_model_carry)
              IN  /\ SubSeq(ppo_variables, t + 1, k) = alone.ppo_variables
                  /\ scan_carry = alone.next_model_carry
                  /\ pc = "returned" => next_model_carry = alone.next_model_carry
                  /\ \A other \in InitialCarries :
                        LET run == get_ppo_variables(SubSeq(trajectory, 1, k), other)
                        IN  /\ SubSeq(run.ppo_variables, t + 1, k)
                                  = SubSeq(ppo_variables, t + 1, k)
                            /\ run.next_model_carry = scan_carry

\* a returned scan of a full chunk from non-zero memory whose second step
\* alone is done: the memory fed into the second step is not the initial
\* one, and the memory returned after the later steps is not either
Wit_C21_HistoryIndependence ==
    /\ pc = "returned"
    /\ Len(trajectory) = MaxLen
    /\ \A t \in 1..MaxLen : trajectory[t].done <=> t = 2
    /\ model_carry # get_initial_model_carry
    /\ fed[2] # get_initial_model_carry
    /\ fed[3] = get_initial_model_carry
    /\ next_model_carry # get_initial_model_carry
    /\ next_model_carry[2] # model_carry[2]

----------------------------------------------------------------------------
(* The phase shown to the policy and the phase the reward refers to *)

\* the one-timestep trajectory of the observed state, its feet at the
\* heights given
StateTrajectory(foot_z) ==
    LET frame == BaseFrame(last_obs.timestep, GaitFreq,
                           state_commands.linear_velocity_command,
                           state_commands.angular_velocity_command)
    IN  MakeTrajectory(<<[frame EXCEPT !.feet_position =
                              <<1, 2, foot_z[1], 4, 5, foot_z[2]>>]>>,
                       last_obs.timestep, {})

\* the foot heights of the phase the policy was shown
ShownFootZ == [i \in 1..2 |-> gait_phase(last_obs.phase[i], max_foot_height).height]

\* C22: at a time that is a whole number of control steps, with a command
\* whose norm is not below the stand-still threshold, the per-foot phase of
\* FeetPhaseReward.get_reward equals the phase observe settled on (and so
\* its cos/sin), and feet at the heights of the shown phase get reward 1
\* where the gate is open; and whenever the observed phase is frozen by the
\* stand-still override the gait-phase reward is 0, whatever the feet do.
Thm_C22_SharedPhase ==
    Taken(last_obs) =>
        LET time == last_obs.timestep
            reference == FeetPhaseReward_phase(time, GaitFreq)
            cmd == state_commands.linear_velocity_command
                       \o state_commands.angular_velocity_command
            shown == FeetPhaseReward_get_reward(stand_still_threshold,
                                                StateTrajectory(ShownFootZ))
            ideal == FeetPhaseReward_get_reward(stand_still_threshold,
                                                StateTrajectory(IdealFootZ(time, GaitFreq)))
        IN  /\ (time % ctrl_dt = 0 /\ ~BelowThreshold) =>
                  /\ reference = last_obs.phase
                  /\ <<cos(reference[1]), cos(reference[2]),
                       sin(reference[1]), sin(reference[2])>> = last_obs.observation
                  /\ NormGreater(cmd, stand_still_threshold) => shown.value[1] = One
            /\ BelowThreshold =>
                  /\ last_obs.phase = <<Pi \div 2, Pi>>
                  /\ shown.value[1] = 0
                  /\ ideal.value[1] = 0

\* after more than one gait cycle, at a whole control step, a moving
\* command: the shown phase has wrapped, the reward refers to the same
\* phase, and feet that follow the shown phase are rewarded with 1
Wit_C22_SharedPhase ==
    /\ Taken(last_obs)
    /\ last_obs.timestep % ctrl_dt = 0
    /\ last_obs.timestep > Period(GaitFreq)
    /\ state_commands.linear_velocity_command = <<30, -20>>
    /\ last_obs.phase[1] < 0 /\ last_obs.phase[2] > 0
    /\ FeetPhaseReward_phase(last_obs.timestep, GaitFreq) = last_obs.phase
    /\ FeetPhaseReward_get_reward(stand_still_threshold,
                                  StateTrajectory(ShownFootZ)).value[1] = One

----------------------------------------------------------------------------
(* Ranges and switching of the velocity commands *)

\* every command of the episode is 0 or within its configured range
InRange ==
    cmd_now # NoCommands =>
        LET w == cmd_now.angular_velocity_command[1]
            x == cmd_now.linear_velocity_command[1]
            y == cmd_now.linear_velocity_command[2]
        IN  /\ w = 0 \/ (-scale <= w /\ w <= scale)
            /\ x = 0 \/ (x_range[1] <= x /\ x <= x_range[2])
            /\ y = 0 \/ (y_range[1] <= y /\ y <= y_range[2])

\* with switch probability 0 the command is the initial one
NeverSwitched ==
    cmd_now # NoCommands =>
        /\ cmd_cfg.angular_switch_prob = 0 =>
              cmd_now.angular_velocity_command = cmd_init.angular_velocity_command
        /\ cmd_cfg.linear_switch_prob = 0 =>
              cmd_now.linear_velocity_command = cmd_init.linear_velocity_command

\* a step whose switch draw is false returns the previous command
KeptUnlessSwitched ==
    cmd_now # NoCommands =>
        /\ ~cmd_switch'.angular =>
              cmd_now'.angular_velocity_command = cmd_now.angular_velocity_command
        /\ ~cmd_switch'.linear =>
              cmd_now'.linear_velocity_command = cmd_now.linear_velocity_command

\* C23: over any episode the angular-velocity command is 0 or within
\* [-scale, scale], each linear-velocity axis is 0 or within its range, a
\* step whose switch draw is false returns the previous command unchanged,
\* and with switch_prob = 0 the command never changes.
Thm_C23_RangeAndSwitch ==
    [](InRange /\ NeverSwitched) /\ [][KeptUnlessSwitched]_vars

\* linear switch probability 0, angular 0.5: after a step that switched
\* the angular command, it differs from the initial one and is not zero,
\* while the linear command is still the initial, non-zero one
Wit_C23_RangeAndSwitch ==
    /\ cmd_switch.stepped /\ cmd_switch.angular /\ ~cmd_switch.linear
    /\ cmd_cfg.linear_switch_prob = 0
    /\ cmd_now.angular_velocity_command # cmd_init.angular_velocity_command
    /\ cmd_now.angular_velocity_command = <<-scale>>
    /\ cmd_now.linear_velocity_command = cmd_init.linear_velocity_command
    /\ cmd_now.linear_velocity_command = <<x_range[2] - 1, y_range[1]>>

====
